---- MODULE Spec2Model ----
(***************************************************************************)
(* The eager TF policy layer of rllib: get_policy_class (agents/pg/pg.py), *)
(* the policy class produced by build_tf_policy and the TFEagerPolicy base *)
(* class (policy/eager_policy.py).  One process, one policy class, one     *)
(* policy object.  The wrapped framework (model, tape, optimizer) is       *)
(* represented by what this code hands to it and by what it hands back.    *)
(***************************************************************************)
EXTENDS Integers, Sequences, FiniteSets, TLC

\* ---------------------------------------------------------------- bounds
NumVars == 2        \* variables of the model (model.variables())
MaxVal == 2         \* a variable holds a value in 0 .. MaxVal-1

VarIds == 1 .. NumVars
Vals == 0 .. (MaxVal - 1)

\* ------------------------------------------------------- program constants
LEARNER_STATS_KEY == "learner_stats"

None == 0           \* an attribute that is not bound
ModelObj == 1       \* the object make_model / get_model_v2 returns
OptimizerObj == 2   \* the object optimizer_fn / AdamOptimizer returns

NoError == <<"none", "none">>

\* the arguments of build_tf_policy that are callbacks
HookNames == {"get_default_config", "postprocess_fn", "stats_fn",
              "optimizer_fn", "gradients_fn", "grad_stats_fn",
              "extra_learn_fetches_fn", "before_init", "before_loss_init",
              "after_init", "make_model", "action_sampler_fn"}

\* the callbacks whose presence the methods of a constructed policy test
\* (compute_actions samples from self.dist_class, which is None exactly when
\* action_sampler_fn was given); the others are read by policy_cls.__init__
\* alone
MethodHooks == {"postprocess_fn", "stats_fn", "gradients_fn", "grad_stats_fn",
                "extra_learn_fetches_fn"}

VARIABLES
  eager,          \* tf.executing_eagerly(), process wide
  hooks,          \* the callbacks the policy's methods see in their closure
  pc,             \* where the policy object is in its life: "class" (not
                  \* constructed yet), "init_..." (inside the constructor),
                  \* "failed" (the constructor raised), "ready"
  self_model,     \* self.model
  self_optimizer, \* self.optimizer
  is_training,    \* self.is_training
  weights,        \* the values of model.variables()
  op,             \* the last call made by the caller
  args,           \* its arguments
  trace,          \* what that call has run so far, in order
  error,          \* <<origin, kind>> of the error it raised, or NoError
  ret,            \* what it returned
  hook_ret,       \* what its callbacks were passed or returned
  applied         \* the arguments of its calls of optimizer.apply_gradients

vars == <<eager, hooks, pc, self_model, self_optimizer, is_training,
          weights, op, args, trace, error, ret, hook_ret, applied>>

\* ------------------------------------------------------------ Python dicts
EmptyDict == [k \in {} |-> 0]

\* d.update(e), dict(d, **e)
Update(d, e) ==
  [k \in (DOMAIN d) \cup (DOMAIN e) |-> IF k \in DOMAIN e THEN e[k] ELSE d[k]]

\* {k: v}
Item(k, v) == [x \in {k} |-> v]

\* tensors, the arrays .numpy() makes of them, a dict as a value
Tensor(v) == [kind |-> "tensor", val |-> v]
Numpy(t) == [kind |-> "ndarray", val |-> t.val]
NumpyDict(d) == [k \in DOMAIN d |-> Numpy(d[k])]
Dict(d) == [kind |-> "dict", items |-> d]

\* ------------------------------------------------------------ the configs
ConfigKeys == {"lr", "model", "gamma"}
DEFAULT_CONFIG == [k \in ConfigKeys |-> 0]
\* what a caller passes: the keys the constructor reads, and maybe more
UserConfigs == {[k \in D |-> 1] : D \in {{"lr", "model"}, ConfigKeys}}
PGConfigs == [use_pytorch : BOOLEAN, use_eager : BOOLEAN]

\* ------------------------------------------------------------ a call begins
Begin(name, a) ==
  /\ op' = name
  /\ args' = a

Has(h) == h \in hooks

\* ------------------------------------------------------- get_policy_class
\* as get_policy_class, with the use_eager branch taken before the conflict
\* of the two flags is looked at
get_policy_class_eager_first(config) ==
  /\ pc \in {"class", "failed", "ready"}
  /\ Begin("get_policy_class", config)
  /\ applied' = <<>>
  /\ trace' = <<>>
  /\ hook_ret' = EmptyDict
  /\ eager' = (eager \/ config.use_eager)
  /\ IF config.use_pytorch /\ config.use_eager
     THEN error' = <<"adapter", "ValueError">> /\ ret' = "raised"
     ELSE /\ error' = NoError
          /\ ret' = IF config.use_pytorch THEN "PGTorchPolicy"
                    ELSE IF config.use_eager THEN "EagerPGTFPolicy"
                    ELSE "PGTFPolicy"
  /\ UNCHANGED <<hooks, pc, self_model, self_optimizer, is_training,
                 weights>>

get_policy_class(config) ==
  /\ pc \in {"class", "failed", "ready"}
  /\ Begin("get_policy_class", config)
  /\ applied' = <<>>
  /\ trace' = <<>>
  /\ hook_ret' = EmptyDict
  /\ IF config.use_pytorch /\ config.use_eager
     THEN /\ error' = <<"adapter", "ValueError">>
          /\ ret' = "raised"
          /\ eager' = eager
     ELSE /\ error' = NoError
          /\ IF config.use_pytorch
             THEN ret' = "PGTorchPolicy" /\ eager' = eager
             ELSE IF config.use_eager
                  THEN ret' = "EagerPGTFPolicy" /\ eager' = TRUE
                  ELSE ret' = "PGTFPolicy" /\ eager' = eager
  /\ UNCHANGED <<hooks, pc, self_model, self_optimizer, is_training,
                 weights>>

\* ---------------------------------------------------- policy_cls.__init__
\* as MergedConfig, with the defaults laid over the caller's config
MergedConfigDefaultsWin(H, config) ==
  IF "get_default_config" \in H THEN Update(config, DEFAULT_CONFIG) ELSE config

\* dict(get_default_config(), **config)
MergedConfig(H, config) ==
  IF "get_default_config" \in H THEN Update(DEFAULT_CONFIG, config) ELSE config

\* The constructor of the class build_tf_policy made of the callbacks H, up
\* to the choice of the action distribution.
policy_cls_init_begin(H, config) ==
  /\ pc = "class"
  /\ Begin("__init__", [hooks |-> H, config |-> config])
  /\ applied' = <<>>
  /\ IF ~eager
     THEN /\ error' = <<"adapter", "AssertionError">>
          /\ ret' = "raised"
          /\ trace' = <<>>
          /\ hook_ret' = EmptyDict
          /\ pc' = "failed"
          /\ UNCHANGED hooks
     ELSE /\ trace' = IF "before_init" \in H THEN <<"before_init">> ELSE <<>>
          /\ hook_ret' = IF "before_init" \in H
                         THEN Item("before_init", MergedConfig(H, config))
                         ELSE EmptyDict
          /\ IF "action_sampler_fn" \in H /\ "make_model" \notin H
             THEN /\ error' = <<"adapter", "ValueError">>
                  /\ ret' = "raised"
                  /\ pc' = "failed"
                  /\ UNCHANGED hooks
             ELSE /\ error' = NoError
                  /\ ret' = "none"
                  /\ hooks' = H \cap MethodHooks
                  /\ pc' = "init_model"
  /\ UNCHANGED <<eager, self_model, self_optimizer, is_training,
                 weights>>

\* as policy_cls_init_model, with model and optimizer passed to
\* TFEagerPolicy.__init__ in each other's place
policy_cls_init_model_swapped ==
  /\ pc = "init_model"
  /\ trace' = trace \o
       << IF "make_model" \in args.hooks THEN "make_model" ELSE "get_model_v2",
          IF "optimizer_fn" \in args.hooks THEN "optimizer_fn"
                                           ELSE "AdamOptimizer",
          "model",
          "TFEagerPolicy.__init__" >>
  /\ self_optimizer' = ModelObj
  /\ self_model' = OptimizerObj
  /\ is_training' = FALSE
  /\ weights' = [v \in VarIds |-> 0]
  /\ pc' = "init_before_loss"
  /\ UNCHANGED <<eager, hooks, op, args, error, ret, hook_ret, applied>>

\* model and optimizer are made, the model is called once, and
\* TFEagerPolicy.__init__ binds them
policy_cls_init_model ==
  /\ pc = "init_model"
  /\ trace' = trace \o
       << IF "make_model" \in args.hooks THEN "make_model" ELSE "get_model_v2",
          IF "optimizer_fn" \in args.hooks THEN "optimizer_fn"
                                           ELSE "AdamOptimizer",
          "model",
          "TFEagerPolicy.__init__" >>
  /\ self_optimizer' = OptimizerObj
  /\ self_model' = ModelObj
  /\ is_training' = FALSE
  /\ weights' = [v \in VarIds |-> 0]
  /\ pc' = "init_before_loss"
  /\ UNCHANGED <<eager, hooks, op, args, error, ret, hook_ret, applied>>

policy_cls_init_before_loss ==
  /\ pc = "init_before_loss"
  /\ IF "before_loss_init" \in args.hooks
     THEN /\ trace' = Append(trace, "before_loss_init")
          /\ hook_ret' = Update(hook_ret,
               Item("before_loss_init", MergedConfig(args.hooks, args.config)))
     ELSE UNCHANGED <<trace, hook_ret>>
  /\ pc' = "init_loss"
  /\ UNCHANGED <<eager, hooks, self_model, self_optimizer, is_training,
                 weights, op, args, error, ret, applied>>

\* what compute_actions runs
ComputeActionsTrace == <<"compute_actions", "model", "sample">>

\* what postprocess_trajectory runs
PostprocessTrace ==
  <<"postprocess_trajectory">> \o
  (IF Has("postprocess_fn") THEN <<"postprocess_fn">> ELSE <<>>)

_do_loss_init ==
  /\ pc = "init_loss"
  /\ is_training' = FALSE
  /\ trace' = trace \o ComputeActionsTrace \o PostprocessTrace \o <<"loss_fn">>
                \o (IF Has("stats_fn") THEN <<"stats_fn">> ELSE <<>>)
  /\ pc' = "init_after"
  /\ UNCHANGED <<eager, hooks, self_model, self_optimizer, weights, op,
                 args, error, ret, hook_ret, applied>>

policy_cls_init_after ==
  /\ pc = "init_after"
  /\ IF "after_init" \in args.hooks
     THEN /\ trace' = Append(trace, "after_init")
          /\ hook_ret' = Update(hook_ret,
               Item("after_init", MergedConfig(args.hooks, args.config)))
     ELSE UNCHANGED <<trace, hook_ret>>
  /\ pc' = "ready"
  /\ UNCHANGED <<eager, hooks, self_model, self_optimizer, is_training,
                 weights, op, args, error, ret, applied>>

\* ----------------------------------------------- the model's variables
\* model.variables() and model.trainable_variables(), as indices into
\* weights; every variable of the model is trainable
Variables == [i \in 1 .. NumVars |-> i]
TrainableVariables == [i \in 1 .. NumVars |-> i]

\* var.numpy() and var.assign(value)
VarNumpy(x) == [kind |-> "ndarray", val |-> x]
Assign(value) == value.val

\* the gradient of the loss with respect to variable v
Grad(v) == [kind |-> "grad", of |-> v]

\* tape.gradient(loss, var_list)
TapeGradient(var_list) == [i \in DOMAIN var_list |-> Grad(var_list[i])]

\* ------------------------------------------------------ Python iterators
\* zip(a, b) is a one-shot iterator (Python 3); list(it) holds its items for
\* good
Zip(a, b) ==
  [lazy |-> TRUE,
   items |-> [i \in (DOMAIN a) \cap (DOMAIN b) |-> <<a[i], b[i]>>]]
List(it) == [lazy |-> FALSE, items |-> it.items]
\* one pass over it: what the pass sees, and what a later pass is left with
Yield(it) == it.items
After(it) == IF it.lazy THEN [lazy |-> TRUE, items |-> <<>>] ELSE it

\* ----------------------------------------------------------- the optimizer
\* optimizer.apply_gradients(grads_and_vars) on the variables w: every
\* variable that comes with a gradient moves
OptimizerStep(w, pairs) ==
  [v \in DOMAIN w |->
     IF \E i \in DOMAIN pairs : pairs[i][2] = v
     THEN (w[v] + 1) % MaxVal ELSE w[v]]

\* ------------------------------------------------------ policy_cls._stats
StatKeys == {"policy_loss"}
FetchKeys == {LEARNER_STATS_KEY, "grad_gnorm"}
\* what stats_fn, extra_learn_fetches_fn and grad_stats_fn may return
StatsResults == {[k \in StatKeys |-> Tensor(1)]}
ExtraResults == {[k \in D |-> Tensor(2)] : D \in SUBSET FetchKeys}
GradStatsResults == {[k \in D |-> Tensor(3)] : D \in SUBSET FetchKeys}

\* as _stats, with the two updates in the other order
_stats_grad_first(sres, eres, gres) ==
  LET f0 == IF Has("stats_fn")
            THEN Item(LEARNER_STATS_KEY, Dict(NumpyDict(sres)))
            ELSE Item(LEARNER_STATS_KEY, Dict(EmptyDict))
      f1 == IF Has("grad_stats_fn") THEN Update(f0, NumpyDict(gres)) ELSE f0
      f2 == IF Has("extra_learn_fetches_fn")
            THEN Update(f1, NumpyDict(eres)) ELSE f1
  IN f2

_stats(sres, eres, gres) ==
  LET f0 == IF Has("stats_fn")
            THEN Item(LEARNER_STATS_KEY, Dict(NumpyDict(sres)))
            ELSE Item(LEARNER_STATS_KEY, Dict(EmptyDict))
      f1 == IF Has("extra_learn_fetches_fn")
            THEN Update(f0, NumpyDict(eres)) ELSE f0
      f2 == IF Has("grad_stats_fn") THEN Update(f1, NumpyDict(gres)) ELSE f1
  IN f2

StatsTrace ==
  <<"_stats">>
  \o (IF Has("stats_fn") THEN <<"stats_fn">> ELSE <<>>)
  \o (IF Has("extra_learn_fetches_fn")
      THEN <<"extra_learn_fetches_fn">> ELSE <<>>)
  \o (IF Has("grad_stats_fn") THEN <<"grad_stats_fn">> ELSE <<>>)

StatsHookRet(sres, eres, gres) ==
  [h \in hooks \cap {"stats_fn", "extra_learn_fetches_fn", "grad_stats_fn"} |->
     IF h = "stats_fn" THEN sres
     ELSE IF h = "extra_learn_fetches_fn" THEN eres ELSE gres]

\* ------------------------------------------- TFEagerPolicy.learn_on_batch
\* first: what log_once("grad_vars") returns, True on the first call in the
\* process; as_list: gradients_fn returns a list (else what the wrapper's
\* compute_gradients gave it)
learn_on_batch(first, as_list, sres, eres, gres) ==
  /\ pc = "ready"
  /\ Begin("learn_on_batch", "samples")
  /\ is_training' = TRUE
  /\ LET variables == TrainableVariables
         zipped == Zip(TapeGradient(variables), variables)
         gv0 == IF Has("gradients_fn") /\ as_list THEN List(zipped) ELSE zipped
         gv1 == IF first THEN List(gv0) ELSE gv0
         grads == [i \in DOMAIN Yield(gv1) |-> Yield(gv1)[i][1]]
         gv2 == After(gv1)
         handed == Yield(gv2)
         fetches == _stats(sres, eres, gres)
     IN /\ trace' = <<"model", "loss_fn",
                      IF Has("gradients_fn") THEN "gradients_fn"
                                             ELSE "tape.gradient",
                      "log_once">>
                    \o (IF first THEN <<"logger.info">> ELSE <<>>)
                    \o StatsTrace \o <<"apply_gradients">>
        /\ hook_ret' = Update(StatsHookRet(sres, eres, gres),
                              Item("_stats.grads", grads))
        /\ applied' = <<handed>>
        /\ IF handed = <<>>
           THEN /\ error' = <<"framework", "ValueError">>
                /\ ret' = "raised"
                /\ weights' = weights
           ELSE /\ error' = NoError
                /\ ret' = fetches
                /\ weights' = OptimizerStep(weights, handed)
  /\ UNCHANGED <<eager, hooks, pc, self_model, self_optimizer>>

\* ---------------------------------------- TFEagerPolicy.compute_gradients
\* the optimizer calls the loss it is given, lambda: self.loss(batch), and
\* loss(self, outputs, samples) is short of one argument
compute_gradients ==
  /\ pc = "ready"
  /\ Begin("compute_gradients", "postprocessed_batch")
  /\ applied' = <<>>
  /\ is_training' = TRUE
  /\ trace' = <<"optimizer.compute_gradients", "loss">>
  /\ error' = <<"adapter", "TypeError">>
  /\ ret' = "raised"
  /\ hook_ret' = EmptyDict
  /\ UNCHANGED <<eager, hooks, pc, self_model, self_optimizer, weights>>

\* ------------------------------------- TFEagerPolicy.loss / TFEagerPolicy.stats
\* policy_cls defines _loss and _stats, not loss and stats: the base methods
loss ==
  /\ pc = "ready"
  /\ Begin("loss", "outputs, samples")
  /\ applied' = <<>>
  /\ trace' = <<>>
  /\ error' = <<"adapter", "NotImplementedError">>
  /\ ret' = "raised"
  /\ hook_ret' = EmptyDict
  /\ UNCHANGED <<eager, hooks, pc, self_model, self_optimizer,
                 is_training, weights>>

stats ==
  /\ pc = "ready"
  /\ Begin("stats", "outputs, samples")
  /\ applied' = <<>>
  /\ trace' = <<>>
  /\ error' = <<"adapter", "NotImplementedError">>
  /\ ret' = "raised"
  /\ hook_ret' = EmptyDict
  /\ UNCHANGED <<eager, hooks, pc, self_model, self_optimizer,
                 is_training, weights>>

\* ------------------------------------------ TFEagerPolicy.apply_gradients
apply_gradients(gradients) ==
  /\ pc = "ready"
  /\ Begin("apply_gradients", gradients)
  /\ applied' = <<>>
  /\ trace' = <<>>
  /\ error' = NoError
  /\ ret' = "NotImplemented"
  /\ hook_ret' = EmptyDict
  /\ UNCHANGED <<eager, hooks, pc, self_model, self_optimizer,
                 is_training, weights>>

\* -------------------------------------- TFEagerPolicy.get_weights / set_weights
get_weights ==
  /\ pc = "ready"
  /\ Begin("get_weights", "none")
  /\ applied' = <<>>
  /\ trace' = <<>>
  /\ error' = NoError
  /\ ret' = [i \in DOMAIN Variables |-> VarNumpy(weights[Variables[i]])]
  /\ hook_ret' = EmptyDict
  /\ UNCHANGED <<eager, hooks, pc, self_model, self_optimizer,
                 is_training, weights>>

\* as set_weights, with the values laid over the variables back to front
set_weights_reversed(w) ==
  /\ pc = "ready"
  /\ Begin("set_weights", w)
  /\ applied' = <<>>
  /\ trace' = <<>>
  /\ hook_ret' = EmptyDict
  /\ IF DOMAIN w = DOMAIN Variables
     THEN /\ error' = NoError
          /\ ret' = "none"
          /\ weights' = [v \in VarIds |-> Assign(w[NumVars + 1 - v])]
     ELSE /\ error' = <<"framework", "ValueError">>
          /\ ret' = "raised"
          /\ weights' = weights
  /\ UNCHANGED <<eager, hooks, pc, self_model, self_optimizer,
                 is_training>>

\* as set_weights, with a structure check of its own in front
set_weights_own_check(w) ==
  /\ pc = "ready"
  /\ Begin("set_weights", w)
  /\ applied' = <<>>
  /\ trace' = <<>>
  /\ hook_ret' = EmptyDict
  /\ IF DOMAIN w = DOMAIN Variables
     THEN /\ error' = NoError
          /\ ret' = "none"
          /\ weights' = [v \in VarIds |-> Assign(w[v])]
     ELSE /\ error' = <<"adapter", "ValueError">>
          /\ ret' = "raised"
          /\ weights' = weights
  /\ UNCHANGED <<eager, hooks, pc, self_model, self_optimizer,
                 is_training>>

\* tf.nest.map_structure raises when the two structures differ
set_weights(w) ==
  /\ pc = "ready"
  /\ Begin("set_weights", w)
  /\ applied' = <<>>
  /\ trace' = <<>>
  /\ hook_ret' = EmptyDict
  /\ IF DOMAIN w = DOMAIN Variables
     THEN /\ error' = NoError
          /\ ret' = "none"
          /\ weights' = [v \in VarIds |->
                IF \E i \in DOMAIN Variables : Variables[i] = v
                THEN Assign(w[CHOOSE i \in DOMAIN Variables : Variables[i] = v])
                ELSE weights[v]]
     ELSE /\ error' = <<"framework", "ValueError">>
          /\ ret' = "raised"
          /\ weights' = weights
  /\ UNCHANGED <<eager, hooks, pc, self_model, self_optimizer,
                 is_training>>

\* the weights structures a caller passes: one array per variable, or one short
WeightArgs ==
  LET full == {[i \in 1 .. NumVars |-> VarNumpy(f[i])] : f \in [1 .. NumVars -> Vals]}
  IN full \cup {[i \in 1 .. (NumVars - 1) |-> VarNumpy(0)]}

\* the gradient lists a caller passes: one array per trainable variable
GradientArgs == {TapeGradient(TrainableVariables)}

\* ---------------------------- policy_cls.compute_actions / postprocess_trajectory
compute_actions ==
  /\ pc = "ready"
  /\ Begin("compute_actions", "obs_batch")
  /\ applied' = <<>>
  /\ hook_ret' = EmptyDict
  /\ IF ~eager
     THEN /\ error' = <<"adapter", "AssertionError">>
          /\ ret' = "raised"
          /\ trace' = <<>>
          /\ UNCHANGED is_training
     ELSE /\ error' = NoError
          /\ ret' = "actions"
          /\ trace' = ComputeActionsTrace
          /\ is_training' = FALSE
  /\ UNCHANGED <<eager, hooks, pc, self_model, self_optimizer, weights>>

postprocess_trajectory ==
  /\ pc = "ready"
  /\ Begin("postprocess_trajectory", "samples")
  /\ applied' = <<>>
  /\ hook_ret' = EmptyDict
  /\ IF ~eager
     THEN /\ error' = <<"adapter", "AssertionError">>
          /\ ret' = "raised"
          /\ trace' = <<>>
     ELSE /\ error' = NoError
          /\ ret' = "batch"
          /\ trace' = PostprocessTrace
  /\ UNCHANGED <<eager, hooks, pc, self_model, self_optimizer,
                 is_training, weights>>

Init ==
  /\ eager = FALSE
  /\ hooks = {}
  /\ pc = "class"
  /\ self_model = None
  /\ self_optimizer = None
  /\ is_training = FALSE
  /\ weights = [v \in VarIds |-> 0]
  /\ op = "none"
  /\ args = "none"
  /\ trace = <<>>
  /\ error = NoError
  /\ ret = "none"
  /\ hook_ret = EmptyDict
  /\ applied = <<>>

Next ==
  \/ \E config \in PGConfigs : get_policy_class(config)
  \/ /\ pc = "class"
     /\ \E H \in SUBSET HookNames, config \in UserConfigs :
          policy_cls_init_begin(H, config)
  \/ policy_cls_init_model
  \/ policy_cls_init_before_loss
  \/ _do_loss_init
  \/ policy_cls_init_after
  \/ compute_actions
  \/ postprocess_trajectory
  \/ /\ pc = "ready"
     /\ \E first \in BOOLEAN,
           as_list \in (IF Has("gradients_fn") THEN BOOLEAN ELSE {FALSE}),
           sres \in (IF Has("stats_fn") THEN StatsResults ELSE {EmptyDict}),
           eres \in (IF Has("extra_learn_fetches_fn")
                     THEN ExtraResults ELSE {EmptyDict}),
           gres \in (IF Has("grad_stats_fn")
                     THEN GradStatsResults ELSE {EmptyDict}) :
          learn_on_batch(first, as_list, sres, eres, gres)
  \/ compute_gradients
  \/ loss
  \/ stats
  \/ \E gradients \in GradientArgs : apply_gradients(gradients)
  \/ get_weights
  \/ \E w \in WeightArgs : set_weights(w)

Spec == Init /\ [][Next]_vars

\* ======================================================================
\* Properties
\* ======================================================================

\* the pairs (gradient, variable) for every trainable variable, in order
AllPairs ==
  [i \in DOMAIN TrainableVariables |->
     <<Grad(TrainableVariables[i]), TrainableVariables[i]>>]

\* C1: every call of learn_on_batch invokes optimizer.apply_gradients exactly
\* once, with one (gradient, variable) pair for every trainable variable,
\* whether log_once("grad_vars") returned True or False.
LearnHandsEveryPairToOptimizer ==
  op = "learn_on_batch" =>
    /\ Len(applied) = 1
    /\ applied[1] = AllPairs

ModelAndOptimizerKept ==
  pc = "ready" =>
    /\ self_model = ModelObj
    /\ self_optimizer = OptimizerObj

\* C3 witness: a constructed policy that has learnt on a batch and moved its
\* weights still holds its model and optimizer.
KeptAfterLearning ==
  /\ pc = "ready"
  /\ op = "learn_on_batch"
  /\ error = NoError
  /\ \E v \in VarIds : weights[v] # 0
  /\ self_model = ModelObj
  /\ self_optimizer = OptimizerObj

\* C4: apply_gradients(gradients) hands the gradients to the optimizer, each
\* with the variable it was computed for, so that the variables are updated.
ApplyGradientsAppliesThem ==
  op = "apply_gradients" =>
    /\ Len(applied) = 1
    /\ applied[1] = [i \in DOMAIN args |-> <<args[i], TrainableVariables[i]>>]

\* C5: compute_gradients sets is_training and returns (grads, info) without
\* raising.
ComputeGradientsReturns ==
  op = "compute_gradients" =>
    /\ is_training
    /\ error = NoError
    /\ ret # "raised"

\* C6: get_policy_class decides on the two flags alone: both set raises
\* ValueError and leaves eager execution as it was; use_pytorch alone returns
\* PGTorchPolicy; use_eager alone enables eager execution and returns the
\* eager PGTFPolicy; neither returns the graph-mode PGTFPolicy and leaves
\* eager execution as it was.
PolicyClassByFlags ==
  [][op' = "get_policy_class" =>
       LET p == args'.use_pytorch
           e == args'.use_eager
       IN /\ (p /\ e) =>
               /\ error' = <<"adapter", "ValueError">>
               /\ ret' = "raised"
               /\ eager' = eager
          /\ (p /\ ~e) =>
               /\ error' = NoError
               /\ ret' = "PGTorchPolicy"
               /\ eager' = eager
          /\ (~p /\ e) =>
               /\ error' = NoError
               /\ ret' = "EagerPGTFPolicy"
               /\ eager' = TRUE
          /\ (~p /\ ~e) =>
               /\ error' = NoError
               /\ ret' = "PGTFPolicy"
               /\ eager' = eager]_vars

\* C6 witness: the two flags were both set, the call raised, and eager
\* execution is still off.
BothFlagsRaisedEagerOff ==
  /\ op = "get_policy_class"
  /\ args.use_pytorch /\ args.use_eager
  /\ error = <<"adapter", "ValueError">>
  /\ ~eager

\* C7: get_weights right after set_weights(w) returns w; set_weights of what
\* get_weights just returned changes no variable; get_weights changes none.
WeightsRoundTrip ==
  [][/\ (op = "set_weights" /\ error = NoError /\ op' = "get_weights") =>
          ret' = args
     /\ (op = "get_weights" /\ op' = "set_weights" /\ args' = ret) =>
          (weights' = weights /\ error' = NoError)
     /\ op' = "get_weights" =>
          (weights' = weights /\ error' = NoError)]_vars

\* C7 witness: get_weights has returned weights that differ from variable
\* to variable.
GotUnequalWeights ==
  /\ op = "get_weights"
  /\ ret[1].val # ret[NumVars].val
  /\ \A i \in DOMAIN ret : ret[i] = VarNumpy(weights[i])

\* where event e first stands in the trace (0 when it does not)
Pos(e) ==
  IF \E i \in DOMAIN trace : trace[i] = e
  THEN CHOOSE i \in DOMAIN trace :
         trace[i] = e /\ \A j \in 1 .. (i - 1) : trace[j] # e
  ELSE 0
Count(e) == Cardinality({i \in DOMAIN trace : trace[i] = e})
Opt(H, h) == IF h \in H THEN <<h>> ELSE <<>>

\* C8: the constructor runs before_init (with the merged config), model
\* creation, optimizer creation, one forward pass, TFEagerPolicy.__init__,
\* before_loss_init, the loss initialisation (compute_actions,
\* postprocess_trajectory, loss_fn, stats_fn if given) and after_init in that
\* order, each supplied hook once; before_loss_init never runs before model
\* and optimizer are bound, after_init never before loss_fn has run once.
ConstructionOrder ==
  /\ (op = "__init__" /\ pc = "ready") =>
       LET H == args.hooks
       IN /\ trace =
               Opt(H, "before_init")
               \o <<IF "make_model" \in H THEN "make_model" ELSE "get_model_v2",
                    IF "optimizer_fn" \in H THEN "optimizer_fn"
                                            ELSE "AdamOptimizer",
                    "model", "TFEagerPolicy.__init__">>
               \o Opt(H, "before_loss_init")
               \o <<"compute_actions", "model", "sample",
                    "postprocess_trajectory">>
               \o Opt(H, "postprocess_fn")
               \o <<"loss_fn">>
               \o Opt(H, "stats_fn")
               \o Opt(H, "after_init")
          /\ \A h \in {"before_init", "before_loss_init", "after_init"} :
               /\ Count(h) = (IF h \in H THEN 1 ELSE 0)
               /\ h \in H =>
                    /\ h \in DOMAIN hook_ret
                    /\ \A k \in DOMAIN args.config :
                         hook_ret[h][k] = args.config[k]
                    /\ "get_default_config" \in H =>
                         /\ DOMAIN hook_ret[h] = ConfigKeys
                         /\ \A k \in ConfigKeys \ DOMAIN args.config :
                              hook_ret[h][k] = DEFAULT_CONFIG[k]
  /\ op = "__init__" =>
       /\ Count("before_loss_init") > 0 =>
            (self_model = ModelObj /\ self_optimizer = OptimizerObj)
       /\ Count("after_init") > 0 => Count("loss_fn") = 1
       /\ Count("TFEagerPolicy.__init__") > 0 =>
            /\ Pos("model") = Pos("TFEagerPolicy.__init__") - 1
            /\ \A h \in {"before_loss_init", "compute_actions", "loss_fn",
                         "after_init"} :
                 Pos(h) = 0 \/ Pos(h) > Pos("TFEagerPolicy.__init__")

\* C8 witness: a policy built with every constructor hook, from a config that
\* leaves a default to be merged in, has finished construction.
BuiltWithEveryHook ==
  /\ op = "__init__"
  /\ pc = "ready"
  /\ {"get_default_config", "before_init", "before_loss_init", "after_init",
      "stats_fn", "postprocess_fn"} \subseteq args.hooks
  /\ "gamma" \notin DOMAIN args.config
  /\ hook_ret["before_init"]["gamma"] = 0
  /\ hook_ret["before_init"]["lr"] = 1

HookResult(h) == IF h \in DOMAIN hook_ret THEN hook_ret[h] ELSE EmptyDict

\* C9: the mapping learn_on_batch returns holds LEARNER_STATS_KEY (the
\* stats_fn result, or an empty mapping without stats_fn); the entries of
\* extra_learn_fetches_fn and then of grad_stats_fn are merged over it, so
\* grad_stats_fn wins a collision and either can overwrite LEARNER_STATS_KEY;
\* it is computed after the gradients and before the optimizer applies them.
StatsMapping ==
  op = "learn_on_batch" =>
    /\ Count("_stats") = 1
    /\ Pos("_stats") > Pos(IF Has("gradients_fn") THEN "gradients_fn"
                                                  ELSE "tape.gradient")
    /\ Pos("_stats") < Pos("apply_gradients")
    /\ \A h \in {"stats_fn", "extra_learn_fetches_fn", "grad_stats_fn"} :
         /\ Count(h) = (IF Has(h) THEN 1 ELSE 0)
         /\ Has(h) => (Pos("_stats") < Pos(h) /\ Pos(h) < Pos("apply_gradients"))
    /\ error = NoError =>
         LET e == HookResult("extra_learn_fetches_fn")
             g == HookResult("grad_stats_fn")
         IN /\ DOMAIN ret = {LEARNER_STATS_KEY} \cup DOMAIN e \cup DOMAIN g
            /\ \A k \in DOMAIN g : ret[k] = Numpy(g[k])
            /\ \A k \in (DOMAIN e) \ (DOMAIN g) : ret[k] = Numpy(e[k])
            /\ LEARNER_STATS_KEY \notin (DOMAIN e \cup DOMAIN g) =>
                 /\ ret[LEARNER_STATS_KEY].kind = "dict"
                 /\ ret[LEARNER_STATS_KEY].items =
                      (IF Has("stats_fn")
                       THEN [k \in StatKeys |->
                               Numpy(HookResult("stats_fn")[k])]
                       ELSE EmptyDict)

\* C9 witness: learn_on_batch has returned a mapping for which both hooks
\* gave the same key, and extra_learn_fetches_fn gave LEARNER_STATS_KEY.
StatsKeysCollided ==
  /\ op = "learn_on_batch"
  /\ error = NoError
  /\ Has("stats_fn")
  /\ "grad_gnorm" \in DOMAIN HookResult("extra_learn_fetches_fn")
  /\ "grad_gnorm" \in DOMAIN HookResult("grad_stats_fn")
  /\ LEARNER_STATS_KEY \in DOMAIN HookResult("extra_learn_fetches_fn")
  /\ LEARNER_STATS_KEY \notin DOMAIN HookResult("grad_stats_fn")
  /\ ret["grad_gnorm"] = Numpy(Tensor(3))
  /\ ret[LEARNER_STATS_KEY] = Numpy(Tensor(2))

====
